---- MODULE Spec2Model ----
(***************************************************************************)
(* Model of test-server.py, the local preview server of the Echoes RPG     *)
(* WASM build: main() (directory resolution, artifact validation, port     *)
(* scan, serve loop, shutdown) and GameHTTPRequestHandler (end_headers,    *)
(* do_OPTIONS, and the GET/HEAD/error paths it inherits from               *)
(* http.server.SimpleHTTPRequestHandler).                                  *)
(***************************************************************************)
EXTENDS Integers, Sequences, FiniteSets, TLC

VARIABLES
    dirs,           \* subdirectories of script_dir that exist on disk
    files,          \* files[d]: the required files present under script_dir/d
    eaddrinuse,     \* the platform's errno for "address already in use"
    pc,             \* position of main(): resolve, validate, scan, banner, serving,
                    \* responded (inside serve_forever, a response just sent), exited
    web_dir,        \* main's web_dir (ServeRoot); "none" before it is chosen
    validated,      \* the required-files loop of main has run
    missing_files,  \* main's missing_files list
    port,           \* loop variable of "for port in range(PORT, PORT + 10)"
    httpd,          \* port of the open listening socket, NoPort when there is none
    boundPort,      \* last port a bind succeeded on (BoundPort), NoPort before
    attempts,       \* history of bind attempts: [port, errno], errno 0 = success
    printed,        \* what main has printed so far
    exitCode,       \* process exit status, NoExit while running
    interrupted,    \* an interrupt signal (KeyboardInterrupt) has been delivered
    response,       \* the response emitted for the request being handled
    serveErrors     \* number of OSErrors raised out of the serve loop so far

vars == <<dirs, files, eaddrinuse, pc, web_dir, validated, missing_files, port,
          httpd, boundPort, attempts, printed, exitCode, interrupted, response,
          serveErrors>>

----------------------------------------------------------------------------
(* Program constants *)

PORT == 8080

NumCandidates == 10

required_files == <<"index.html", "pkg/echoes_rpg.js", "pkg/echoes_rpg_bg.wasm">>

CandidateDirs == {"test-deploy", "dist"}

NoPort == 0

NoExit == 0 - 1

RequiredSet == {required_files[i] : i \in 1..Len(required_files)}

(* Bound of the model: OSErrors raised out of the serve loop in one run *)
MaxServeErrors == 2

(* Environment: errno values the operating system answers with *)
PlatformAddrInUse == {48, 98}

(* errno of a bind refused for another reason (EACCES) *)
BindRefused == {13}

(* errno values an OSError raised inside the serve loop may carry (EBADF, or
   the platform's address-in-use number) *)
ServeErrnos == {9} \cup {eaddrinuse}

----------------------------------------------------------------------------
(* Printed messages *)

Msg(m) == [msg |-> m, file |-> "", port |-> NoPort]

MsgFile(m, f) == [msg |-> m, file |-> f, port |-> NoPort]

MsgPort(m, p) == [msg |-> m, file |-> "", port |-> p]

----------------------------------------------------------------------------
(* Request handler: GameHTTPRequestHandler *)

Methods == {"GET", "HEAD", "OPTIONS", "POST"}

RequestPaths ==
    { "/", "/index.html", "/index.html?v=1", "/pkg/echoes_rpg.js",
      "/pkg/echoes_rpg_bg.wasm", "/pkg", "/pkg/", "/nope.wasm", "/style.css" }

OtherFiles == {"style.css"}

NoResponse ==
    [method |-> "", path |-> "", status |-> 0, headers |-> <<>>,
     body |-> "", file |-> "", fs |-> FALSE]

(* str.endswith *)
endswith(s, suffix) ==
    /\ Len(s) >= Len(suffix)
    /\ SubSeq(s, Len(s) - Len(suffix) + 1, Len(s)) = suffix

(* index of the first occurrence of the one-character string c in s, 0 if none *)
find(s, c) ==
    LET hits == {i \in 1..Len(s) : SubSeq(s, i, i) = c}
    IN  IF hits = {} THEN 0 ELSE CHOOSE i \in hits : \A j \in hits : i <= j

(* the path component of the request target: the query and fragment are cut *)
url_path(p) ==
    LET q == find(p, "?")
        a == IF q = 0 THEN p ELSE SubSeq(p, 1, q - 1)
        h == find(a, "#")
    IN  IF h = 0 THEN a ELSE SubSeq(a, 1, h - 1)

(* translate_path: the file or directory, relative to the served directory,
   that the request target names (without the trailing slash) *)
translate_path(p) ==
    LET u == url_path(p)
        r == IF endswith(u, "/") THEN SubSeq(u, 1, Len(u) - 1) ELSE u
    IN  IF Len(r) >= 1 /\ SubSeq(r, 1, 1) = "/" THEN SubSeq(r, 2, Len(r)) ELSE r

(* the files under the served directory: the required files present there
   and the other files of the build *)
RootFiles(present) == present \cup OtherFiles

(* os.path.isdir: the served directory itself, and pkg when it holds a file *)
isdir(root, rel) == rel = "" \/ (rel = "pkg" /\ \E f \in root : SubSeq(f, 1, 4) = "pkg/")

(* os.path.isfile *)
isfile(root, rel) == rel \in root

(* guess_type of the inherited handler: the mimetypes table, else octet-stream *)
guess_type(rel) ==
    IF endswith(rel, ".html") THEN "text/html"
    ELSE IF endswith(rel, ".js") THEN "text/javascript"
    ELSE IF endswith(rel, ".wasm") THEN "application/wasm"
    ELSE IF endswith(rel, ".css") THEN "text/css"
    ELSE "application/octet-stream"

(* send_response: the status line, then the Server and Date headers *)
send_response == << <<"Server", "SimpleHTTP">>, <<"Date", "now">> >>

CorsHeaders ==
    << <<"Access-Control-Allow-Origin", "*">>,
       <<"Access-Control-Allow-Methods", "GET, POST, OPTIONS">>,
       <<"Access-Control-Allow-Headers", "*">> >>

end_headers_cors_on_match(path, buffered) ==
    buffered \o
    ( IF endswith(path, ".wasm") THEN CorsHeaders \o << <<"Content-Type", "application/wasm">> >>
      ELSE IF endswith(path, ".js") THEN CorsHeaders \o << <<"Content-Type", "application/javascript">> >>
      ELSE IF endswith(path, ".html") THEN CorsHeaders \o << <<"Content-Type", "text/html; charset=utf-8">> >>
      ELSE <<>> )

(* GameHTTPRequestHandler.end_headers: the headers the response is flushed with,
   given self.path and the headers buffered so far *)
end_headers(path, buffered) ==
    buffered \o CorsHeaders \o
    ( IF endswith(path, ".wasm") THEN << <<"Content-Type", "application/wasm">> >>
      ELSE IF endswith(path, ".js") THEN << <<"Content-Type", "application/javascript">> >>
      ELSE IF endswith(path, ".html") THEN << <<"Content-Type", "text/html; charset=utf-8">> >>
      ELSE <<>> )

(* send_error of the inherited handler *)
send_error(method, path, code, touched) ==
    [method |-> method, path |-> path, status |-> code,
     headers |-> end_headers(path, send_response \o
                    << <<"Connection", "close">>,
                       <<"Content-Type", "text/html;charset=utf-8">>,
                       <<"Content-Length", "len">> >>),
     body |-> IF method = "HEAD" THEN "" ELSE "error_page",
     file |-> "", fs |-> touched]

(* send_head of the inherited handler, followed by the copy of the file (GET) *)
send_head(root, method, path) ==
    LET rel   == translate_path(path)
        index == IF rel = "" THEN "index.html" ELSE rel \o "/index.html"
        ok(f, ctype, content) ==
            [method |-> method, path |-> path, status |-> 200,
             headers |-> end_headers(path, send_response \o
                            << <<"Content-type", ctype>>,
                               <<"Content-Length", "len">>,
                               <<"Last-Modified", "mtime">> >>),
             body |-> IF method = "HEAD" THEN "" ELSE content,
             file |-> f, fs |-> TRUE]
    IN  IF isdir(root, rel)
        THEN IF ~endswith(url_path(path), "/")
             THEN [method |-> method, path |-> path, status |-> 301,
                   headers |-> end_headers(path, send_response \o
                                  << <<"Location", url_path(path) \o "/">>,
                                     <<"Content-Length", "0">> >>),
                   body |-> "", file |-> "", fs |-> TRUE]
             ELSE IF isfile(root, index)
                  THEN ok(index, guess_type(index), index)
                  ELSE [method |-> method, path |-> path, status |-> 200,
                        headers |-> end_headers(path, send_response \o
                                       << <<"Content-type", "text/html; charset=utf-8">>,
                                          <<"Content-Length", "len">> >>),
                        body |-> IF method = "HEAD" THEN "" ELSE "listing",
                        file |-> "", fs |-> TRUE]
        ELSE IF isfile(root, rel)
             THEN ok(rel, guess_type(rel), rel)
             ELSE send_error(method, path, 404, TRUE)

do_OPTIONS_as_head(root, path) == send_head(root, "OPTIONS", path)

(* GameHTTPRequestHandler.do_OPTIONS *)
do_OPTIONS(root, path) ==
    [method |-> "OPTIONS", path |-> path, status |-> 200,
     headers |-> end_headers(path, send_response),
     body |-> "", file |-> "", fs |-> FALSE]

(* handle_one_request: dispatch on the method name *)
handle(root, method, path) ==
    IF method = "OPTIONS" THEN do_OPTIONS(root, path)
    ELSE IF method \in {"GET", "HEAD"} THEN send_head(root, method, path)
    ELSE send_error(method, path, 501, FALSE)

(* the handler's answer to every request of the model, for every content of
   the served directory *)
Responses ==
    [present \in SUBSET RequiredSet |->
        [m \in Methods |->
            [p \in RequestPaths |-> handle(RootFiles(present), m, p)]]]

----------------------------------------------------------------------------
(* main() *)

resolve_dir_dist_first(ds) ==
    IF "dist" \in ds THEN "dist"
    ELSE IF "test-deploy" \in ds THEN "test-deploy"
    ELSE "none"

(* the if/elif/else that picks web_dir *)
resolve_dir(ds) ==
    IF "test-deploy" \in ds THEN "test-deploy"
    ELSE IF "dist" \in ds THEN "dist"
    ELSE "none"

(* the loop over required_files, from index i on: appends each file that does
   not exist under web *)
RECURSIVE missing_from(_, _)
missing_from(web, i) ==
    IF i > Len(required_files) THEN <<>>
    ELSE IF required_files[i] \notin files[web]
         THEN <<required_files[i]>> \o missing_from(web, i + 1)
         ELSE missing_from(web, i + 1)

missing_first_only(web) ==
    LET all == missing_from(web, 1)
    IN  IF all = <<>> THEN <<>> ELSE <<all[1]>>

missing_of(web) == missing_from(web, 1)

AddressInUse_any(errno) == TRUE

(* e.errno == 48 or e.errno == 98 *)
AddressInUse(errno) == errno = 48 \/ errno = 98

InRange_inclusive(p) == p <= PORT + NumCandidates

(* membership of range(PORT, PORT + 10) *)
InRange(p) == PORT <= p /\ p < PORT + NumCandidates

Init ==
    /\ dirs \in SUBSET CandidateDirs
    /\ files \in [CandidateDirs -> SUBSET RequiredSet]
    /\ \A d \in CandidateDirs : d \notin dirs => files[d] = {}
    /\ eaddrinuse \in PlatformAddrInUse
    /\ pc = "resolve"
    /\ web_dir = "none"
    /\ validated = FALSE
    /\ missing_files = <<>>
    /\ port = PORT
    /\ httpd = NoPort
    /\ boundPort = NoPort
    /\ attempts = <<>>
    /\ printed = <<>>
    /\ exitCode = NoExit
    /\ interrupted = FALSE
    /\ response = NoResponse
    /\ serveErrors = 0

(* sys.exit(code), or the interpreter ending on an uncaught exception *)
Exit(code) ==
    /\ pc' = "exited"
    /\ exitCode' = code

(* Directory Resolver *)
Resolve ==
    /\ pc = "resolve"
    /\ LET d == resolve_dir(dirs)
       IN  IF d = "none"
           THEN /\ printed' = printed \o <<Msg("no_built_files"), Msg("build_guidance")>>
                /\ Exit(1)
                /\ UNCHANGED web_dir
           ELSE /\ web_dir' = d
                /\ printed' = Append(printed, MsgFile("serving_from", d))
                /\ pc' = "validate"
                /\ UNCHANGED exitCode
    /\ UNCHANGED <<dirs, files, eaddrinuse, validated, missing_files, port, httpd,
                   boundPort, attempts, interrupted, response, serveErrors>>

(* Artifact Validator, then os.chdir(web_dir) *)
Validate ==
    /\ pc = "validate"
    /\ validated' = TRUE
    /\ missing_files' = missing_of(web_dir)
    /\ IF missing_files' # <<>>
       THEN /\ printed' = printed \o <<Msg("missing_header")>>
                          \o [i \in 1..Len(missing_files') |->
                                 MsgFile("missing", missing_files'[i])]
                          \o <<Msg("missing_guidance")>>
            /\ Exit(1)
       ELSE /\ pc' = "scan"
            /\ UNCHANGED <<printed, exitCode>>
    /\ UNCHANGED <<dirs, files, eaddrinuse, web_dir, port, httpd, boundPort,
                   attempts, interrupted, response, serveErrors>>

(* "continue": the for loop moves to the next candidate, or runs its else
   clause when the range is exhausted *)
Continue ==
    IF InRange(port + 1)
    THEN /\ port' = port + 1
         /\ pc' = "scan"
         /\ UNCHANGED <<printed, exitCode>>
    ELSE /\ printed' = Append(printed, MsgPort("no_available_port", PORT))
         /\ Exit(1)
         /\ UNCHANGED port

(* "raise": the OSError leaves main uncaught *)
Raise ==
    /\ Exit(1)
    /\ UNCHANGED <<port, printed>>

(* One iteration of the port scan: socketserver.TCPServer(("", port), ...) *)
TryBind ==
    /\ pc = "scan"
    /\ \E errno \in {0, eaddrinuse} \cup BindRefused :
          /\ attempts' = Append(attempts, [port |-> port, errno |-> errno])
          /\ IF errno = 0
             THEN /\ httpd' = port
                  /\ boundPort' = port
                  /\ pc' = "banner"
                  /\ UNCHANGED <<port, printed, exitCode>>
             ELSE /\ UNCHANGED <<httpd, boundPort>>
                  /\ IF AddressInUse(errno) THEN Continue ELSE Raise
    /\ UNCHANGED <<dirs, files, eaddrinuse, web_dir, validated, missing_files,
                   interrupted, response, serveErrors>>

(* The startup banner, printed inside the with block before serve_forever *)
Banner ==
    /\ pc = "banner"
    /\ printed' = Append(printed, MsgPort("banner", port))
    /\ pc' = "serving"
    /\ UNCHANGED <<dirs, files, eaddrinuse, web_dir, validated, missing_files, port,
                   httpd, boundPort, attempts, exitCode, interrupted, response,
                   serveErrors>>

(* serve_forever accepts one well-formed HTTP/1.x request and the handler
   answers it *)
HandleRequest ==
    /\ pc = "serving"
    /\ \E m \in Methods, p \in RequestPaths : response' = Responses[files[web_dir]][m][p]
    /\ pc' = "responded"
    /\ UNCHANGED <<dirs, files, eaddrinuse, web_dir, validated, missing_files, port,
                   httpd, boundPort, attempts, printed, exitCode, interrupted,
                   serveErrors>>

(* A request line that does not parse: send_error runs before self.path is
   set, end_headers raises AttributeError, nothing is flushed; the server's
   handle_error reports it and the serve loop goes on *)
MalformedRequest ==
    /\ pc = "serving"
    /\ response' = NoResponse
    /\ pc' = "responded"
    /\ UNCHANGED <<dirs, files, eaddrinuse, web_dir, validated, missing_files, port,
                   httpd, boundPort, attempts, printed, exitCode, interrupted,
                   serveErrors>>

(* shutdown_request: the connection is closed, the handler object is dropped
   and serve_forever waits for the next connection *)
FinishRequest ==
    /\ pc = "responded"
    /\ response' = NoResponse
    /\ pc' = "serving"
    /\ UNCHANGED <<dirs, files, eaddrinuse, web_dir, validated, missing_files, port,
                   httpd, boundPort, attempts, printed, exitCode, interrupted,
                   serveErrors>>

(* An OSError raised out of serve_forever: the with block closes the server
   and the except OSError clause of the scan loop receives it *)
ServeOSError ==
    /\ pc \in {"serving", "responded"}
    /\ serveErrors < MaxServeErrors
    /\ serveErrors' = serveErrors + 1
    /\ \E errno \in ServeErrnos :
          IF AddressInUse(errno) THEN Continue ELSE Raise
    /\ httpd' = NoPort
    /\ response' = NoResponse
    /\ UNCHANGED <<dirs, files, eaddrinuse, web_dir, validated, missing_files,
                   boundPort, attempts, interrupted>>

(* KeyboardInterrupt raised out of serve_forever: notice, break, main returns *)
KeyboardInterruptServing ==
    /\ pc \in {"serving", "responded"}
    /\ interrupted' = TRUE
    /\ printed' = Append(printed, Msg("stopped_by_user"))
    /\ httpd' = NoPort
    /\ response' = NoResponse
    /\ Exit(0)
    /\ UNCHANGED <<dirs, files, eaddrinuse, web_dir, validated, missing_files, port,
                   boundPort, attempts, serveErrors>>

(* KeyboardInterrupt raised anywhere else in main: no handler is in scope, the
   with block (if entered) closes the server and the interpreter ends on the
   uncaught exception, with status 1 or by the signal (130) *)
KeyboardInterruptUncaught ==
    /\ pc \in {"resolve", "validate", "scan", "banner"}
    /\ interrupted' = TRUE
    /\ httpd' = NoPort
    /\ \E code \in {1, 130} : Exit(code)
    /\ UNCHANGED <<dirs, files, eaddrinuse, web_dir, validated, missing_files, port,
                   boundPort, attempts, printed, response, serveErrors>>

Next ==
    \/ Resolve
    \/ Validate
    \/ TryBind
    \/ Banner
    \/ HandleRequest
    \/ MalformedRequest
    \/ FinishRequest
    \/ ServeOSError
    \/ KeyboardInterruptServing
    \/ KeyboardInterruptUncaught

Spec == Init /\ [][Next]_vars

----------------------------------------------------------------------------
(* Properties *)

Last(seq) == seq[Len(seq)]

Ascending == \A i, j \in 1..Len(attempts) : i < j => attempts[i].port < attempts[j].port

FoundInUse(q) == \E i \in 1..Len(attempts) : attempts[i].port = q /\ attempts[i].errno = eaddrinuse

HeaderValues(r, name) == {r.headers[k][2] : k \in {k \in 1..Len(r.headers) : r.headers[k][1] = name}}

HeaderCount(r, name) == Cardinality({k \in 1..Len(r.headers) : r.headers[k][1] = name})

(* the Content-Type a client reads off the response: header names are
   case-insensitive, and of several the last one is taken *)
ContentTypeOf(r) ==
    LET at == {k \in 1..Len(r.headers) : r.headers[k][1] \in {"Content-type", "Content-Type"}}
    IN  IF at = {} THEN "" ELSE r.headers[CHOOSE k \in at : \A j \in at : j <= k][2]

(* C1: the candidates 8080..8089 are tried in ascending order, each at most
   once, the scan stops at the first successful bind, and the port the server
   is bound to is the lowest candidate that is not in use. *)
C1_BindsLowestFreePort ==
    /\ Ascending
    /\ \A i \in 1..Len(attempts) : attempts[i].errno = 0 => i = Len(attempts)
    /\ httpd # NoPort =>
          /\ httpd \in 8080..8089
          /\ \A q \in 8080..(httpd - 1) : FoundInUse(q)

(* C2: a bind that fails for a reason other than "address already in use" is
   fatal at once: it is the last attempt, the serve loop is not entered and the
   process has exited with code 1. *)
C2_OtherBindFailureIsFatal ==
    \A i \in 1..Len(attempts) :
        attempts[i].errno \in BindRefused =>
            /\ i = Len(attempts)
            /\ pc = "exited"
            /\ exitCode = 1
            /\ httpd = NoPort
            /\ Last(printed).msg \notin {"no_available_port", "stopped_by_user"}

C2_Witness ==
    /\ Len(attempts) >= 2
    /\ Last(attempts).errno \in BindRefused
    /\ pc = "exited"

(* C3: when all ten candidates 8080..8089 fail with "address already in use",
   the scan has made exactly ten attempts (never one on 8090, never one
   twice), the serve loop was never entered, the diagnostic naming port 8080
   is printed and the process has exited with code 1. *)
C3_ExhaustionStopsAfterTenAttempts ==
    /\ Len(attempts) <= 10
    /\ Ascending
    /\ \A i \in 1..Len(attempts) : attempts[i].port \in 8080..8089
    /\ (\A q \in 8080..8089 : FoundInUse(q)) =>
          /\ Len(attempts) = 10
          /\ boundPort = NoPort
          /\ pc = "exited"
          /\ exitCode = 1
          /\ Last(printed) = MsgPort("no_available_port", 8080)
          /\ \A k \in 1..Len(printed) : printed[k].msg # "banner"

C3_Witness ==
    /\ \A q \in 8080..8089 : FoundInUse(q)
    /\ pc = "exited"

(* C4: an interrupt signal delivered to the process while it has a server
   causes a clean shutdown: the listener is closed, the shutdown notice is
   printed and the process exits with status 0. *)
C4_InterruptExitsCleanly ==
    (interrupted /\ boundPort # NoPort) =>
        /\ pc = "exited"
        /\ httpd = NoPort
        /\ exitCode = 0
        /\ Last(printed) = Msg("stopped_by_user")

(* C5: ServeRoot is test-deploy whenever test-deploy exists, dist when only
   dist exists; when neither exists the no-built-files message is printed and
   the process exits with code 1, with no required file checked and no port
   tried. *)
C5_ResolverPrefersTestDeploy ==
    /\ web_dir # "none" =>
          /\ web_dir \in dirs
          /\ "test-deploy" \in dirs => web_dir = "test-deploy"
    /\ (printed # <<>> /\ dirs # {}) => web_dir # "none"
    /\ dirs = {} =>
          /\ web_dir = "none"
          /\ ~validated
          /\ attempts = <<>>
          /\ printed # <<>> =>
                /\ pc = "exited"
                /\ exitCode = 1
                /\ printed[1] = Msg("no_built_files")

C5_Witness ==
    /\ dirs = {"test-deploy", "dist"}
    /\ files["dist"] = RequiredSet
    /\ web_dir = "test-deploy"

(* C6: the missing list is exactly the required files absent under ServeRoot,
   in RequiredFileSet order; when it is not empty every missing path is
   printed and the process exits with code 1 without trying a port (an
   incomplete test-deploy never falls back to dist); a port is tried only
   when the list is empty. *)
C6_MissingListExactAndFatal ==
    /\ validated =>
          /\ {missing_files[i] : i \in 1..Len(missing_files)} = RequiredSet \ files[web_dir]
          /\ \A i, j \in 1..Len(missing_files) :
                i < j => \E a, b \in 1..Len(required_files) :
                            /\ a < b
                            /\ required_files[a] = missing_files[i]
                            /\ required_files[b] = missing_files[j]
          /\ missing_files # <<>> =>
                /\ pc = "exited"
                /\ exitCode = 1
                /\ attempts = <<>>
                /\ \A i \in 1..Len(missing_files) :
                      \E k \in 1..Len(printed) : printed[k] = MsgFile("missing", missing_files[i])
    /\ attempts # <<>> => (validated /\ missing_files = <<>>)

C6_Witness ==
    /\ validated
    /\ web_dir = "test-deploy"
    /\ missing_files = <<"pkg/echoes_rpg.js", "pkg/echoes_rpg_bg.wasm">>
    /\ files["dist"] = RequiredSet
    /\ pc = "exited"

(* C7: every response the server emits, whatever the method, path and status,
   carries each of the three CORS headers once, with the exact values. *)
C7_EveryResponseCarriesCors ==
    response.status # 0 =>
        /\ HeaderCount(response, "Access-Control-Allow-Origin") = 1
        /\ HeaderValues(response, "Access-Control-Allow-Origin") = {"*"}
        /\ HeaderCount(response, "Access-Control-Allow-Methods") = 1
        /\ HeaderValues(response, "Access-Control-Allow-Methods") = {"GET, POST, OPTIONS"}
        /\ HeaderCount(response, "Access-Control-Allow-Headers") = 1
        /\ HeaderValues(response, "Access-Control-Allow-Headers") = {"*"}

C7_Witness ==
    /\ response.status = 501
    /\ response.method = "POST"
    /\ response.path = "/style.css"

(* C8: a successful GET or HEAD whose resolved file ends in .wasm, .js or
   .html is answered with exactly the content type mapped for that extension,
   decided by the path of the file the request resolves to. *)
C8_ContentTypeByResolvedFile ==
    (response.status = 200 /\ response.method \in {"GET", "HEAD"}) =>
        /\ endswith(response.file, ".wasm") => ContentTypeOf(response) = "application/wasm"
        /\ endswith(response.file, ".js") => ContentTypeOf(response) = "application/javascript"
        /\ endswith(response.file, ".html") => ContentTypeOf(response) = "text/html; charset=utf-8"

(* C9: an OPTIONS request, for any path, with or without a file there, is
   answered with status 200, an empty body and the three CORS headers, and
   without any filesystem access. *)
C9_OptionsIsPreflightOnly ==
    response.method = "OPTIONS" =>
        /\ response.status = 200
        /\ response.body = ""
        /\ ~response.fs
        /\ "*" \in HeaderValues(response, "Access-Control-Allow-Origin")
        /\ "GET, POST, OPTIONS" \in HeaderValues(response, "Access-Control-Allow-Methods")
        /\ "*" \in HeaderValues(response, "Access-Control-Allow-Headers")

C9_Witness ==
    /\ response.method = "OPTIONS"
    /\ response.path = "/nope.wasm"
    /\ response.status = 200

(* C10: ServeRoot and BoundPort are each chosen at most once and never change
   afterwards; once a candidate port is bound, no other candidate is tried or
   bound, whatever happens while serving. *)
C10_RootAndPortChosenOnce ==
    [][ /\ web_dir # "none" => web_dir' = web_dir
        /\ boundPort # NoPort => (boundPort' = boundPort /\ attempts' = attempts) ]_vars

====
